---- MODULE Spec2Model ----
(***************************************************************************)
(* Model of the KWin script "Last Used Virtual Desktops"                   *)
(* (contents/code/main.js): the desktop history, the continuation timer,   *)
(* the navigation buffer and the slot map of class LastUsedDesktops,       *)
(* driven by the host's signals and the registered shortcuts.              *)
(***************************************************************************)
EXTENDS Integers, Sequences, FiniteSets, TLC

VARIABLES
    desktops,          \* workspace.desktops: sequence of [id, x11DesktopNumber]
    current,           \* workspace.currentDesktop.id
    now,               \* Date.now()
    pending,           \* the host still owes a currentDesktopChanged signal
    desktopNumberMap,  \* this.desktopNumberMap
    desktopHistory,    \* this.desktopHistory
    historyIndex,      \* this.historyIndex
    lastTriggerTime,   \* this.lastTriggerTime
    navigationBuffer,  \* this.navigationBuffer
    shortcuts,         \* the registerShortcut calls made so far, in order
    thrown,            \* an exception escaped the constructor or a handler
    walk,              \* observer: the run of 'previous desktop' presses in progress
    tog,               \* observer: the run of presses of one toggle shortcut in progress
    pss,               \* observer: previous-press, confirmation, switch by other means
    ptp,               \* observer: previous-press, toggle press, previous-press
    rt,                \* observer: two slow 'previous desktop' presses
    ut,                \* observer: a toggle jump the host has not reported yet
    pre                \* observer: the state a press was made in

vars == <<desktops, current, now, pending, desktopNumberMap, desktopHistory,
          historyIndex, lastTriggerTime, navigationBuffer, shortcuts, thrown,
          walk, tog, pss, ptp, rt, ut, pre>>

host == <<desktops, current, now, pending>>
engine == <<desktopNumberMap, desktopHistory, historyIndex, lastTriggerTime, navigationBuffer>>

----------------------------------------------------------------------------
(* Bounds of the model *)

NumDesktops == 3
MaxTicks == 2
TickMs == 250
StartTime == 1000
MaxHint == 2
MaxStartup == 22

(* Program constants *)

continuationDelay == 500
minSlots == 20

Ids == 1..NumDesktops
None == 0
SlotInputs == 1..(NumDesktops + 1)

----------------------------------------------------------------------------
(* Helpers *)

Max(a, b) == IF a >= b THEN a ELSE b

LastEntry(h) == IF Len(h) = 0 THEN None ELSE h[Len(h)]

Includes(h, id) == \E i \in 1..Len(h) : h[i] = id

\* Array.prototype.indexOf, 1-based; 0 when absent
IndexOf(h, id) ==
    IF Includes(h, id)
    THEN CHOOSE i \in 1..Len(h) : h[i] = id /\ \A j \in 1..(i - 1) : h[j] # id
    ELSE 0

\* Array.prototype.splice(i, 1), 1-based
Splice(h, i) == SubSeq(h, 1, i - 1) \o SubSeq(h, i + 1, Len(h))

\* The host's list of m desktops: identifiers are opaque to the script, so the
\* desktops are named by their place in the list, which is also the number the
\* host gives them
DesktopList(m) == [i \in 1..m |-> [id |-> i, x11DesktopNumber |-> i]]

HostLists == {DesktopList(m) : m \in 1..NumDesktops}

\* Desktop lists whose host numbers are arbitrary: 0 stands for a missing
\* number (undefined, null or 0), and two desktops may carry the same number
HintedLists ==
    UNION {{[i \in 1..m |-> [id |-> i, x11DesktopNumber |-> f[i]]] :
               f \in [1..m -> 0..MaxHint]} : m \in 1..NumDesktops}

\* what one change by the host makes of a list: a desktop added at the end,
\* the last desktop removed, or one desktop renumbered
HintedChanges(ds) ==
    LET m == Len(ds)
    IN  {Append(ds, [id |-> m + 1, x11DesktopNumber |-> n]) : n \in {k \in 0..MaxHint : m < NumDesktops}}
        \cup {SubSeq(ds, 1, m - 1) : k \in {j \in {m} : j > 1}}
        \cup {[ds EXCEPT ![i[1]].x11DesktopNumber = i[2]] :
                 i \in {j \in (1..m) \X (0..MaxHint) : ds[j[1]].x11DesktopNumber # j[2]}}

DesktopIds(ds) == {ds[i].id : i \in 1..Len(ds)}

----------------------------------------------------------------------------
(* The methods of LastUsedDesktops *)

PutFirstWins(m, k, v) ==
    IF k \in DOMAIN m THEN m ELSE [x \in (DOMAIN m) \cup {k} |-> IF x = k THEN v ELSE m[x]]

Put(m, k, v) == [x \in (DOMAIN m) \cup {k} |-> IF x = k THEN v ELSE m[x]]

RECURSIVE BuildLoop(_, _, _)
BuildLoop(ds, i, m) ==
    IF i > Len(ds) THEN m
    ELSE LET desktopNumber == IF ds[i].x11DesktopNumber # 0
                              THEN ds[i].x11DesktopNumber ELSE i
         IN  BuildLoop(ds, i + 1, Put(m, desktopNumber, ds[i].id))

buildDesktopNumberMap(ds) == BuildLoop(ds, 1, <<>>)

\* accepts every identifier that is not null
desktopExistsNonNull(ds, desktopId) == desktopId # None

desktopExists(ds, desktopId) == \E i \in 1..Len(ds) : ds[i].id = desktopId

addToHistoryNoRemove(h, desktopId) == Append(h, desktopId)

addToHistoryKeepsPlace(h, desktopId) ==
    IF Includes(h, desktopId) THEN h ELSE Append(h, desktopId)

addToHistoryPrepends(h, desktopId) ==
    <<desktopId>> \o SelectSeq(h, LAMBDA x : x # desktopId)

addToHistory(h, desktopId) ==
    LET existingIndex == IndexOf(h, desktopId)
        h1 == IF existingIndex # 0 THEN Splice(h, existingIndex) ELSE h
    IN  Append(h1, desktopId)

cleanupHistory(h, ds) == SelectSeq(h, LAMBDA desktopId : desktopExists(ds, desktopId))

\* a press exactly continuationDelay after the previous one still continues
isContinuationInclusive(t, last) == (t - last) <= continuationDelay

isContinuation(t, last) == (t - last) < continuationDelay

getDesktopFromHistoryOffByOne(h, index) ==
    IF Len(h) < index + 1 THEN None
    ELSE h[Len(h) - index + 1]

\* with too few entries, falls back to the desktop numbered like the index
getDesktopFromHistoryFallsBack(h, index) ==
    IF Len(h) < index + 1 THEN index ELSE h[Len(h) - index]

getDesktopFromHistory(h, index) ==
    IF Len(h) < index + 1 THEN None
    ELSE LET hi == Len(h) - 1 - index
         IN  IF hi < 0 THEN None ELSE h[hi + 1]

getNextHistoryIndexStuck(index) == index

\* getNextHistoryDesktop: this.historyIndex++
getNextHistoryIndex(index) == index + 1

commitNavigationBufferDropped(h, buffer) == h

\* commitNavigationBuffer: the history it leaves
commitNavigationBuffer(h, buffer) ==
    IF buffer # None /\ LastEntry(h) # buffer THEN addToHistory(h, buffer) ELSE h

previousDesktopIdOldest(h, currentDesktopId, ds) ==
    LET ok == {i \in 1..Len(h) : h[i] # currentDesktopId /\ desktopExists(ds, h[i])}
    IN  IF ok = {} THEN None
        ELSE h[CHOOSE i \in ok : \A j \in ok : j >= i]

previousDesktopIdAny(h, currentDesktopId, ds) ==
    LET ok == {i \in 1..Len(h) : desktopExists(ds, h[i])}
    IN  IF ok = {} THEN None
        ELSE h[CHOOSE i \in ok : \A j \in ok : j <= i]

\* with no candidate in History, falls back to the first desktop of the list
previousDesktopIdFirstDesktop(h, currentDesktopId, ds) ==
    LET ok == {i \in 1..Len(h) : h[i] # currentDesktopId /\ desktopExists(ds, h[i])}
    IN  IF ok = {} THEN ds[1].id
        ELSE h[CHOOSE i \in ok : \A j \in ok : j <= i]

\* takes the last entry of History whatever it is
previousDesktopIdLastEntry(h, currentDesktopId, ds) ==
    IF Len(h) >= 1 /\ desktopExists(ds, LastEntry(h)) THEN LastEntry(h) ELSE None

\* the toggle loop of handleDirectDesktopNavigation: most recent entry that
\* is not the current desktop and still exists
previousDesktopId(h, currentDesktopId, ds) ==
    LET ok == {i \in 1..Len(h) : h[i] # currentDesktopId /\ desktopExists(ds, h[i])}
    IN  IF ok = {} THEN None
        ELSE h[CHOOSE i \in ok : \A j \in ok : j <= i]

navigateToDesktopFirstFound(ds, desktopId) ==
    IF desktopExists(ds, desktopId) THEN ds[1].id ELSE None

\* assigns without looking the target up
navigateToDesktopUnchecked(ds, desktopId) == desktopId

\* navigateToDesktop: the desktop it assigns, None when the target is not found
navigateToDesktop(ds, desktopId) ==
    IF desktopExists(ds, desktopId) THEN desktopId ELSE None

\* one 'Go to Desktop' shortcut per desktop present
registerShortcutsPerDesktop(n) ==
    <<[name |-> "Last Used Virtual Desktops", slot |-> 0]>>
    \o [i \in 1..n |-> [name |-> "Go to Desktop", slot |-> i]]

\* registerShortcuts: the calls of registerShortcut in order, for n desktops
registerShortcuts(n) ==
    <<[name |-> "Last Used Virtual Desktops", slot |-> 0]>>
    \o [i \in 1..Max(minSlots, n) |-> [name |-> "Go to Desktop", slot |-> i]]

----------------------------------------------------------------------------
(* Initial state: the host's state at load time, then the constructor *)

NoWalk == [h |-> <<>>, k |-> 0, c |-> 0]
NoTog == [a |-> None, z |-> None, odd |-> FALSE]
NoPss == [phase |-> "none", x |-> None, p |-> None]
NoPtp == [phase |-> "none", b |-> None]
NoRt == [phase |-> "none", x |-> None, p |-> None, c |-> FALSE]
NoUt == [phase |-> "none", n |-> 0, t |-> None]
NoPre == [op |-> "none"]

Init ==
    /\ desktops \in HostLists
    /\ current \in DesktopIds(desktops)
    /\ now = StartTime
    /\ pending = FALSE
    /\ desktopNumberMap = buildDesktopNumberMap(desktops)
    /\ desktopHistory = <<current>>
    /\ historyIndex = 0
    /\ lastTriggerTime = 0
    /\ navigationBuffer = None
    /\ shortcuts = registerShortcuts(Len(desktops))
    /\ thrown = FALSE
    /\ walk = NoWalk
    /\ tog = NoTog
    /\ pss = NoPss
    /\ ptp = NoPtp
    /\ rt = NoRt
    /\ ut = NoUt
    /\ pre = NoPre

----------------------------------------------------------------------------
(* The clock advances *)

Tick ==
    /\ now < StartTime + MaxTicks * TickMs
    /\ now' = now + TickMs
    /\ UNCHANGED <<desktops, current, pending, engine>>

----------------------------------------------------------------------------
(* workspace.currentDesktopChanged: the handler of connectSignals *)

\* ignores the report of the desktop the walk is standing on
CurrentDesktopChangedConfirmSuppressed ==
    /\ pending
    /\ pending' = FALSE
    /\ desktopHistory' = IF current = navigationBuffer
                         THEN desktopHistory
                         ELSE addToHistory(desktopHistory, current)
    /\ UNCHANGED <<desktops, current, now, desktopNumberMap, historyIndex,
                   lastTriggerTime, navigationBuffer>>

\* The host reports the desktop a shortcut handler switched to.
CurrentDesktopChangedConfirm ==
    /\ pending
    /\ pending' = FALSE
    /\ desktopHistory' = addToHistory(desktopHistory, current)
    /\ UNCHANGED <<desktops, current, now, desktopNumberMap, historyIndex,
                   lastTriggerTime, navigationBuffer>>

\* The user switches to desktop d by other means and the host reports it.
CurrentDesktopChangedSwitch(d) ==
    /\ d \in DesktopIds(desktops)
    /\ d # current
    /\ current' = d
    /\ pending' = FALSE
    /\ desktopHistory' = addToHistory(desktopHistory, d)
    /\ UNCHANGED <<desktops, now, desktopNumberMap, historyIndex,
                   lastTriggerTime, navigationBuffer>>

----------------------------------------------------------------------------
(* workspace.desktopsChanged: the handler of connectSignals *)

\* The host adds a desktop at the end of its list or removes the last one,
\* then emits the signal.  Removing the active desktop makes the host activate
\* another one first, which it reports by currentDesktopChanged before
\* desktopsChanged.
DesktopsChanged(ds) ==
    /\ ds \in HostLists
    /\ Len(ds) \in {Len(desktops) - 1, Len(desktops) + 1}
    /\ desktops' = ds
    /\ desktopNumberMap' = buildDesktopNumberMap(ds)
    /\ IF current \in DesktopIds(ds)
       THEN /\ UNCHANGED <<current, pending>>
            /\ desktopHistory' = cleanupHistory(desktopHistory, ds)
       ELSE /\ current' \in DesktopIds(ds)
            /\ pending' = FALSE
            /\ desktopHistory' = cleanupHistory(addToHistory(desktopHistory, current'), ds)
    /\ UNCHANGED <<now, historyIndex, lastTriggerTime, navigationBuffer>>

\* The same handler under a host whose numbers are arbitrary.
DesktopsChangedHintedKeepsMap(ds) ==
    /\ ds \in HintedChanges(desktops)
    /\ desktops' = ds
    /\ desktopNumberMap' = BuildLoop(ds, 1, desktopNumberMap)
    /\ IF current \in DesktopIds(ds)
       THEN /\ UNCHANGED <<current, pending>>
            /\ desktopHistory' = cleanupHistory(desktopHistory, ds)
       ELSE /\ current' \in DesktopIds(ds)
            /\ pending' = FALSE
            /\ desktopHistory' = cleanupHistory(addToHistory(desktopHistory, current'), ds)
    /\ UNCHANGED <<now, historyIndex, lastTriggerTime, navigationBuffer>>

DesktopsChangedHinted(ds) ==
    /\ ds \in HintedChanges(desktops)
    /\ desktops' = ds
    /\ desktopNumberMap' = buildDesktopNumberMap(ds)
    /\ IF current \in DesktopIds(ds)
       THEN /\ UNCHANGED <<current, pending>>
            /\ desktopHistory' = cleanupHistory(desktopHistory, ds)
       ELSE /\ current' \in DesktopIds(ds)
            /\ pending' = FALSE
            /\ desktopHistory' = cleanupHistory(addToHistory(desktopHistory, current'), ds)
    /\ UNCHANGED <<now, historyIndex, lastTriggerTime, navigationBuffer>>

----------------------------------------------------------------------------
(* The 'Last Used Virtual Desktops' shortcut *)

handleHistoryNavigation ==
    LET currentDesktopId == current
        h1 == cleanupHistory(desktopHistory, desktops)
        isContinuing == isContinuation(now, lastTriggerTime)
        \* first press: commitNavigationBuffer, then add the current desktop
        h2 == commitNavigationBuffer(h1, navigationBuffer)
        h3 == IF ~Includes(h2, currentDesktopId)
              THEN addToHistory(h2, currentDesktopId) ELSE h2
        h == IF isContinuing THEN h1 ELSE h3
        index == IF isContinuing THEN getNextHistoryIndex(historyIndex) ELSE 1
        buffer == IF isContinuing THEN navigationBuffer ELSE None
        targetDesktopId == getDesktopFromHistory(h, index)
        go == desktopExists(desktops, targetDesktopId)
        moved == IF go THEN navigateToDesktop(desktops, targetDesktopId) ELSE None
    IN  /\ isContinuing => historyIndex < NumDesktops
        /\ lastTriggerTime' = now
        /\ desktopHistory' = h
        /\ historyIndex' = index
        /\ navigationBuffer' = IF go THEN targetDesktopId ELSE buffer
        /\ current' = IF moved # None THEN moved ELSE current
        /\ pending' = IF moved # None THEN TRUE ELSE pending
        /\ UNCHANGED <<desktops, now, desktopNumberMap>>

----------------------------------------------------------------------------
(* The 'Go to Desktop N' shortcuts *)

\* an unknown slot falls back to the last desktop of the list
handleDirectDesktopNavigationClamped(desktopNumber) ==
    LET known == TRUE
        targetDesktopId == IF desktopNumber \in DOMAIN desktopNumberMap
                           THEN desktopNumberMap[desktopNumber]
                           ELSE desktops[Len(desktops)].id
        exists == known /\ desktopExists(desktops, targetDesktopId)
        currentDesktopId == current
        back == currentDesktopId = targetDesktopId
        previous == previousDesktopId(desktopHistory, currentDesktopId, desktops)
        moved == IF ~exists THEN None
                 ELSE IF back
                      THEN IF previous # None
                           THEN navigateToDesktop(desktops, previous) ELSE None
                      ELSE navigateToDesktop(desktops, targetDesktopId)
    IN  /\ desktopNumber \in SlotInputs
        /\ desktopNumberMap' = desktopNumberMap
        /\ current' = IF moved # None THEN moved ELSE current
        /\ pending' = IF moved # None THEN TRUE ELSE pending
        /\ UNCHANGED <<desktops, now, desktopHistory, historyIndex,
                       lastTriggerTime, navigationBuffer>>

\* a stale slot also prunes History
handleDirectDesktopNavigationCleans(desktopNumber) ==
    LET known == desktopNumber \in DOMAIN desktopNumberMap
        targetDesktopId == IF known THEN desktopNumberMap[desktopNumber] ELSE None
        exists == known /\ desktopExists(desktops, targetDesktopId)
        currentDesktopId == current
        back == currentDesktopId = targetDesktopId
        previous == previousDesktopId(desktopHistory, currentDesktopId, desktops)
        moved == IF ~exists THEN None
                 ELSE IF back
                      THEN IF previous # None
                           THEN navigateToDesktop(desktops, previous) ELSE None
                      ELSE navigateToDesktop(desktops, targetDesktopId)
    IN  /\ desktopNumber \in SlotInputs
        /\ desktopNumberMap' = IF known /\ ~exists
                               THEN buildDesktopNumberMap(desktops)
                               ELSE desktopNumberMap
        /\ desktopHistory' = IF known /\ ~exists
                             THEN cleanupHistory(desktopHistory, desktops)
                             ELSE desktopHistory
        /\ current' = IF moved # None THEN moved ELSE current
        /\ pending' = IF moved # None THEN TRUE ELSE pending
        /\ UNCHANGED <<desktops, now, historyIndex, lastTriggerTime, navigationBuffer>>

handleDirectDesktopNavigation(desktopNumber) ==
    LET known == desktopNumber \in DOMAIN desktopNumberMap
        targetDesktopId == IF known THEN desktopNumberMap[desktopNumber] ELSE None
        exists == known /\ desktopExists(desktops, targetDesktopId)
        currentDesktopId == current
        back == currentDesktopId = targetDesktopId
        previous == previousDesktopId(desktopHistory, currentDesktopId, desktops)
        moved == IF ~exists THEN None
                 ELSE IF back
                      THEN IF previous # None
                           THEN navigateToDesktop(desktops, previous) ELSE None
                      ELSE navigateToDesktop(desktops, targetDesktopId)
    IN  /\ desktopNumber \in SlotInputs
        /\ desktopNumberMap' = IF known /\ ~exists
                               THEN buildDesktopNumberMap(desktops)
                               ELSE desktopNumberMap
        /\ current' = IF moved # None THEN moved ELSE current
        /\ pending' = IF moved # None THEN TRUE ELSE pending
        /\ UNCHANGED <<desktops, now, desktopHistory, historyIndex,
                       lastTriggerTime, navigationBuffer>>

----------------------------------------------------------------------------
(* Observers: what a run of presses has done so far.  Each specification
   below runs the same program with one observer. *)

\* no walk is left open on another desktop, and the active desktop is the
\* most recent entry
Quiescent ==
    /\ Len(desktopHistory) >= 1
    /\ current = LastEntry(desktopHistory)
    /\ navigationBuffer \in {None, LastEntry(desktopHistory)}

\* A walk is followed from a fresh press made in a quiescent state, through
\* continuing presses, either with no confirmation at all (c = 0) or with
\* every switch confirmed before the next press (c > 0); any other event ends it.
WalkOnPress ==
    walk' = IF isContinuation(now, lastTriggerTime)
            THEN IF walk = NoWalk \/ (walk.c > 0 /\ pending) THEN NoWalk
                 ELSE [walk EXCEPT !.k = @ + 1]
            ELSE IF Quiescent THEN [h |-> desktopHistory, k |-> 1, c |-> 0]
                 ELSE NoWalk

WalkOnConfirm ==
    walk' = IF walk = NoWalk \/ (walk.c = 0 /\ walk.k > 1) THEN NoWalk
            ELSE [walk EXCEPT !.c = @ + 1]

WalkKept == UNCHANGED walk
WalkEnds == walk' = NoWalk

\* A toggle run starts with a press that leaves A, the last entry of History,
\* for Z, the entry before it, and goes on with presses of the same shortcut,
\* each made after the previous switch was confirmed; any other event ends it.
\* The run keeps the parity of the number of presses made so far.
ToggleOnPress(desktopNumber) ==
    LET known == desktopNumber \in DOMAIN desktopNumberMap
        target == IF known THEN desktopNumberMap[desktopNumber] ELSE None
        exists == known /\ desktopExists(desktops, target)
        continues == tog # NoTog /\ tog.z = target /\ ~pending
    IN  tog' = IF ~exists THEN NoTog
               ELSE IF continues THEN [tog EXCEPT !.odd = ~@]
               ELSE IF current # target /\ Len(desktopHistory) >= 2
                       /\ current = LastEntry(desktopHistory)
                       /\ target = desktopHistory[Len(desktopHistory) - 1]
                    THEN [a |-> current, z |-> target, odd |-> TRUE]
                    ELSE NoTog

ToggleKept == UNCHANGED tog
ToggleEnds == tog' = NoTog

\* A previous-press that moved from X to P, its confirmation, then a switch
\* by other means to a third desktop.
PssOnPress ==
    pss' = IF current' # current
           THEN [phase |-> "moved", x |-> current, p |-> current']
           ELSE NoPss

PssOnConfirm ==
    pss' = IF pss.phase = "moved" THEN [pss EXCEPT !.phase = "confirmed"] ELSE NoPss

PssOnSwitch ==
    pss' = IF pss.phase = "confirmed" /\ current' \notin {pss.x, pss.p}
           THEN [pss EXCEPT !.phase = "switched"]
           ELSE NoPss

PssKept == UNCHANGED pss
PssEnds == pss' = NoPss

\* A previous-press that moved (phase "walk"), then a toggle press that jumps
\* to another desktop (phase "jumped") or, at any time, a toggle press made on
\* the desktop of its slot that jumps back (phase "back"); b is the desktop the
\* toggle press left.  The host's report of the jump completes the phase.
PtpOnPrev ==
    ptp' = IF current' # current THEN [phase |-> "walk", b |-> None] ELSE NoPtp

PtpOnConfirm ==
    ptp' = IF ptp.phase = "walk" THEN ptp
           ELSE IF ptp.phase = "jumped" THEN [ptp EXCEPT !.phase = "jumpedConfirmed"]
           ELSE IF ptp.phase = "back" THEN [ptp EXCEPT !.phase = "backConfirmed"]
           ELSE NoPtp

PtpOnToggle(desktopNumber) ==
    LET known == desktopNumber \in DOMAIN desktopNumberMap
        target == IF known THEN desktopNumberMap[desktopNumber] ELSE None
    IN  ptp' = IF current' = current THEN NoPtp
               ELSE IF target = current THEN [phase |-> "back", b |-> current]
               ELSE IF ptp.phase = "walk" THEN [phase |-> "jumped", b |-> current]
               ELSE NoPtp

PtpKept == UNCHANGED ptp
PtpEnds == ptp' = NoPtp

\* Two slow presses: a fresh press made in a quiescent state with at least two
\* existing entries in History, X active and P the entry before it (phase
\* "first"), then a second fresh press (phase "back"); c tells whether the
\* host reported the first switch.  Any other event than the report and the
\* clock ends the observation.
RtOnPress ==
    LET h == cleanupHistory(desktopHistory, desktops)
    IN  rt' = IF isContinuation(now, lastTriggerTime) THEN NoRt
              ELSE IF rt.phase = "first" THEN [rt EXCEPT !.phase = "back"]
              ELSE IF Quiescent /\ Len(h) >= 2
                   THEN [phase |-> "first", x |-> current, p |-> h[Len(h) - 1], c |-> FALSE]
                   ELSE NoRt

RtOnConfirm ==
    rt' = IF rt.phase = "first" THEN [rt EXCEPT !.c = TRUE]
          ELSE IF rt.phase = "back" THEN rt
          ELSE NoRt

RtKept == UNCHANGED rt
RtEnds == rt' = NoRt

----------------------------------------------------------------------------
(* Specifications *)

Next ==
    \/ Tick /\ UNCHANGED <<shortcuts, thrown, ut, pre, walk, tog, pss, ptp, rt>>
    \/ CurrentDesktopChangedConfirm /\ UNCHANGED <<shortcuts, thrown, ut, pre, walk, tog, pss, ptp, rt>>
    \/ \E d \in Ids : CurrentDesktopChangedSwitch(d) /\ UNCHANGED <<shortcuts, thrown, ut, pre, walk, tog, pss, ptp, rt>>
    \/ \E ds \in HostLists : DesktopsChanged(ds) /\ UNCHANGED <<shortcuts, thrown, ut, pre, walk, tog, pss, ptp, rt>>
    \/ handleHistoryNavigation /\ UNCHANGED <<shortcuts, thrown, ut, pre, walk, tog, pss, ptp, rt>>
    \/ \E n \in SlotInputs : handleDirectDesktopNavigation(n) /\ UNCHANGED <<shortcuts, thrown, ut, pre, walk, tog, pss, ptp, rt>>

Spec == Init /\ [][Next]_vars

NextWalk ==
    \/ Tick /\ WalkKept /\ UNCHANGED <<shortcuts, thrown, ut, pre, tog, pss, ptp, rt>>
    \/ CurrentDesktopChangedConfirm /\ WalkOnConfirm /\ UNCHANGED <<shortcuts, thrown, ut, pre, tog, pss, ptp, rt>>
    \/ \E d \in Ids : CurrentDesktopChangedSwitch(d) /\ WalkEnds /\ UNCHANGED <<shortcuts, thrown, ut, pre, tog, pss, ptp, rt>>
    \/ \E ds \in HostLists : DesktopsChanged(ds) /\ WalkEnds /\ UNCHANGED <<shortcuts, thrown, ut, pre, tog, pss, ptp, rt>>
    \/ handleHistoryNavigation /\ WalkOnPress /\ UNCHANGED <<shortcuts, thrown, ut, pre, tog, pss, ptp, rt>>
    \/ \E n \in SlotInputs : handleDirectDesktopNavigation(n) /\ WalkEnds /\ UNCHANGED <<shortcuts, thrown, ut, pre, tog, pss, ptp, rt>>

SpecWalk == Init /\ [][NextWalk]_vars

NextToggle ==
    \/ Tick /\ ToggleKept /\ UNCHANGED <<shortcuts, thrown, ut, pre, walk, pss, ptp, rt>>
    \/ CurrentDesktopChangedConfirm /\ ToggleKept /\ UNCHANGED <<shortcuts, thrown, ut, pre, walk, pss, ptp, rt>>
    \/ \E d \in Ids : CurrentDesktopChangedSwitch(d) /\ ToggleEnds /\ UNCHANGED <<shortcuts, thrown, ut, pre, walk, pss, ptp, rt>>
    \/ \E ds \in HostLists : DesktopsChanged(ds) /\ ToggleEnds /\ UNCHANGED <<shortcuts, thrown, ut, pre, walk, pss, ptp, rt>>
    \/ handleHistoryNavigation /\ ToggleEnds /\ UNCHANGED <<shortcuts, thrown, ut, pre, walk, pss, ptp, rt>>
    \/ \E n \in SlotInputs : handleDirectDesktopNavigation(n) /\ ToggleOnPress(n) /\ UNCHANGED <<shortcuts, thrown, ut, pre, walk, pss, ptp, rt>>

SpecToggle == Init /\ [][NextToggle]_vars

NextPss ==
    \/ Tick /\ PssKept /\ UNCHANGED <<shortcuts, thrown, ut, pre, walk, tog, ptp, rt>>
    \/ CurrentDesktopChangedConfirm /\ PssOnConfirm /\ UNCHANGED <<shortcuts, thrown, ut, pre, walk, tog, ptp, rt>>
    \/ \E d \in Ids : CurrentDesktopChangedSwitch(d) /\ PssOnSwitch /\ UNCHANGED <<shortcuts, thrown, ut, pre, walk, tog, ptp, rt>>
    \/ \E ds \in HostLists : DesktopsChanged(ds) /\ PssEnds /\ UNCHANGED <<shortcuts, thrown, ut, pre, walk, tog, ptp, rt>>
    \/ handleHistoryNavigation /\ PssOnPress /\ UNCHANGED <<shortcuts, thrown, ut, pre, walk, tog, ptp, rt>>
    \/ \E n \in SlotInputs : handleDirectDesktopNavigation(n) /\ PssEnds /\ UNCHANGED <<shortcuts, thrown, ut, pre, walk, tog, ptp, rt>>

SpecPss == Init /\ [][NextPss]_vars

NextPtp ==
    \/ Tick /\ PtpKept /\ UNCHANGED <<shortcuts, thrown, ut, pre, walk, tog, pss, rt>>
    \/ CurrentDesktopChangedConfirm /\ PtpOnConfirm /\ UNCHANGED <<shortcuts, thrown, ut, pre, walk, tog, pss, rt>>
    \/ \E d \in Ids : CurrentDesktopChangedSwitch(d) /\ PtpEnds /\ UNCHANGED <<shortcuts, thrown, ut, pre, walk, tog, pss, rt>>
    \/ \E ds \in HostLists : DesktopsChanged(ds) /\ PtpEnds /\ UNCHANGED <<shortcuts, thrown, ut, pre, walk, tog, pss, rt>>
    \/ handleHistoryNavigation /\ PtpOnPrev /\ UNCHANGED <<shortcuts, thrown, ut, pre, walk, tog, pss, rt>>
    \/ \E n \in SlotInputs : handleDirectDesktopNavigation(n) /\ PtpOnToggle(n) /\ UNCHANGED <<shortcuts, thrown, ut, pre, walk, tog, pss, rt>>

SpecPtp == Init /\ [][NextPtp]_vars

NextRt ==
    \/ Tick /\ RtKept /\ UNCHANGED <<shortcuts, thrown, ut, pre, walk, tog, pss, ptp>>
    \/ CurrentDesktopChangedConfirm /\ RtOnConfirm /\ UNCHANGED <<shortcuts, thrown, ut, pre, walk, tog, pss, ptp>>
    \/ \E d \in Ids : CurrentDesktopChangedSwitch(d) /\ RtEnds /\ UNCHANGED <<shortcuts, thrown, ut, pre, walk, tog, pss, ptp>>
    \/ \E ds \in HostLists : DesktopsChanged(ds) /\ RtEnds /\ UNCHANGED <<shortcuts, thrown, ut, pre, walk, tog, pss, ptp>>
    \/ handleHistoryNavigation /\ RtOnPress /\ UNCHANGED <<shortcuts, thrown, ut, pre, walk, tog, pss, ptp>>
    \/ \E n \in SlotInputs : handleDirectDesktopNavigation(n) /\ RtEnds /\ UNCHANGED <<shortcuts, thrown, ut, pre, walk, tog, pss, ptp>>

SpecRt == Init /\ [][NextRt]_vars

\* Observer of an unconfirmed toggle: a toggle press of slot n jumped to the
\* slot's desktop t and the host has not delivered the event for t;
\* "back" once the same shortcut has been pressed again.
UtOnToggle(desktopNumber) ==
    LET known == desktopNumber \in DOMAIN desktopNumberMap
        target == IF known THEN desktopNumberMap[desktopNumber] ELSE None
    IN  ut' = IF ut.phase = "jumped" /\ desktopNumber = ut.n
              THEN [ut EXCEPT !.phase = "back"]
              ELSE IF current' # current /\ current' = target
                   THEN [phase |-> "jumped", n |-> desktopNumber, t |-> target]
                   ELSE NoUt

UtKept == ut' = IF ut.phase = "jumped" THEN ut ELSE NoUt

UtEnds == ut' = NoUt

NextUt ==
    \/ Tick /\ UtKept /\ UNCHANGED <<shortcuts, thrown, pre, walk, tog, pss, ptp, rt>>
    \/ CurrentDesktopChangedConfirm /\ UtEnds /\ UNCHANGED <<shortcuts, thrown, pre, walk, tog, pss, ptp, rt>>
    \/ \E d \in Ids : CurrentDesktopChangedSwitch(d) /\ UtEnds /\ UNCHANGED <<shortcuts, thrown, pre, walk, tog, pss, ptp, rt>>
    \/ \E ds \in HostLists : DesktopsChanged(ds) /\ UtEnds /\ UNCHANGED <<shortcuts, thrown, pre, walk, tog, pss, ptp, rt>>
    \/ handleHistoryNavigation /\ UtEnds /\ UNCHANGED <<shortcuts, thrown, pre, walk, tog, pss, ptp, rt>>
    \/ \E n \in SlotInputs : handleDirectDesktopNavigation(n) /\ UtOnToggle(n) /\ UNCHANGED <<shortcuts, thrown, pre, walk, tog, pss, ptp, rt>>

SpecUt == Init /\ [][NextUt]_vars

\* A host that emits currentDesktopChanged inside the assignment of
\* workspace.currentDesktop: the handler of connectSignals runs in the middle
\* of navigateToDesktop, before the press handler stores navigationBuffer.
\* The result of a 'previous desktop' press under such a host.
handleHistoryNavigationSyncResult ==
    LET currentDesktopId == current
        h1 == cleanupHistory(desktopHistory, desktops)
        isContinuing == isContinuation(now, lastTriggerTime)
        h2 == commitNavigationBuffer(h1, navigationBuffer)
        h3 == IF ~Includes(h2, currentDesktopId)
              THEN addToHistory(h2, currentDesktopId) ELSE h2
        h == IF isContinuing THEN h1 ELSE h3
        index == IF isContinuing THEN getNextHistoryIndex(historyIndex) ELSE 1
        buffer == IF isContinuing THEN navigationBuffer ELSE None
        targetDesktopId == getDesktopFromHistory(h, index)
        go == desktopExists(desktops, targetDesktopId)
        moved == IF go THEN navigateToDesktop(desktops, targetDesktopId) ELSE None
        \* the signal handler, run by the assignment
        h4 == IF moved # None THEN addToHistory(h, moved) ELSE h
    IN  [moved |-> moved # None,
         current |-> IF moved # None THEN moved ELSE current,
         desktopHistory |-> h4,
         historyIndex |-> index,
         lastTriggerTime |-> now,
         navigationBuffer |-> IF go THEN targetDesktopId ELSE buffer,
         desktopNumberMap |-> desktopNumberMap]

handleHistoryNavigationSync ==
    LET r == handleHistoryNavigationSyncResult
    IN  /\ ~pending
        /\ isContinuation(now, lastTriggerTime) => historyIndex < NumDesktops
        /\ current' = r.current
        /\ desktopHistory' = r.desktopHistory
        /\ historyIndex' = r.historyIndex
        /\ lastTriggerTime' = r.lastTriggerTime
        /\ navigationBuffer' = r.navigationBuffer
        /\ UNCHANGED <<desktops, now, pending, desktopNumberMap>>

\* The result of a toggle press under such a host.
handleDirectDesktopNavigationSyncResult(desktopNumber) ==
    LET known == desktopNumber \in DOMAIN desktopNumberMap
        targetDesktopId == IF known THEN desktopNumberMap[desktopNumber] ELSE None
        exists == known /\ desktopExists(desktops, targetDesktopId)
        currentDesktopId == current
        back == currentDesktopId = targetDesktopId
        previous == previousDesktopId(desktopHistory, currentDesktopId, desktops)
        moved == IF ~exists THEN None
                 ELSE IF back
                      THEN IF previous # None
                           THEN navigateToDesktop(desktops, previous) ELSE None
                      ELSE navigateToDesktop(desktops, targetDesktopId)
    IN  [moved |-> moved # None,
         current |-> IF moved # None THEN moved ELSE current,
         desktopHistory |-> IF moved # None
                            THEN addToHistory(desktopHistory, moved)
                            ELSE desktopHistory,
         historyIndex |-> historyIndex,
         lastTriggerTime |-> lastTriggerTime,
         navigationBuffer |-> navigationBuffer,
         desktopNumberMap |-> IF known /\ ~exists
                              THEN buildDesktopNumberMap(desktops)
                              ELSE desktopNumberMap]

handleDirectDesktopNavigationSync(desktopNumber) ==
    LET r == handleDirectDesktopNavigationSyncResult(desktopNumber)
    IN  /\ desktopNumber \in SlotInputs
        /\ ~pending
        /\ current' = r.current
        /\ desktopHistory' = r.desktopHistory
        /\ desktopNumberMap' = r.desktopNumberMap
        /\ UNCHANGED <<desktops, now, pending, historyIndex, lastTriggerTime,
                       navigationBuffer>>

\* The engine's fields and the active desktop, as one value.
Outcome ==
    [current |-> current,
     desktopHistory |-> desktopHistory,
     historyIndex |-> historyIndex,
     lastTriggerTime |-> lastTriggerTime,
     navigationBuffer |-> navigationBuffer,
     desktopNumberMap |-> desktopNumberMap]

\* Observer of a press under the host that reports later: made with nothing
\* owed, it has switched, and `sync` is what the same press would have left
\* under the host that reports inside the assignment.
PreOnPrev ==
    LET r == handleHistoryNavigationSyncResult
    IN  pre' = IF ~pending /\ pending'
               THEN [op |-> "prev", sync |-> [x \in DOMAIN Outcome |-> r[x]]]
               ELSE NoPre

PreOnToggle(desktopNumber) ==
    LET r == handleDirectDesktopNavigationSyncResult(desktopNumber)
    IN  pre' = IF ~pending /\ pending'
               THEN [op |-> "toggle", sync |-> [x \in DOMAIN Outcome |-> r[x]]]
               ELSE NoPre

\* the host reports the switch of the observed press
PreOnConfirm ==
    pre' = IF pre.op \in {"prev", "toggle"}
           THEN [op |-> "reported", sync |-> pre.sync]
           ELSE NoPre

PreKept == pre' = IF pre.op \in {"prev", "toggle"} THEN pre ELSE NoPre

PreEnds == pre' = NoPre

NextSync ==
    \/ Tick /\ PreKept /\ UNCHANGED <<shortcuts, thrown, ut, walk, tog, pss, ptp, rt>>
    \/ CurrentDesktopChangedConfirm /\ PreOnConfirm /\ UNCHANGED <<shortcuts, thrown, ut, walk, tog, pss, ptp, rt>>
    \/ \E d \in Ids : CurrentDesktopChangedSwitch(d) /\ PreEnds /\ UNCHANGED <<shortcuts, thrown, ut, walk, tog, pss, ptp, rt>>
    \/ \E ds \in HostLists : DesktopsChanged(ds) /\ PreEnds /\ UNCHANGED <<shortcuts, thrown, ut, walk, tog, pss, ptp, rt>>
    \/ handleHistoryNavigation /\ PreOnPrev /\ UNCHANGED <<shortcuts, thrown, ut, walk, tog, pss, ptp, rt>>
    \/ \E n \in SlotInputs : handleDirectDesktopNavigation(n) /\ PreOnToggle(n) /\ UNCHANGED <<shortcuts, thrown, ut, walk, tog, pss, ptp, rt>>
    \/ handleHistoryNavigationSync /\ PreEnds /\ UNCHANGED <<shortcuts, thrown, ut, walk, tog, pss, ptp, rt>>
    \/ \E n \in SlotInputs : handleDirectDesktopNavigationSync(n) /\ PreEnds /\ UNCHANGED <<shortcuts, thrown, ut, walk, tog, pss, ptp, rt>>

SpecSync == Init /\ [][NextSync]_vars

\* The slot map under arbitrary host numbers: the constructor, then
\* desktop-set changes and toggle presses.
InitMap ==
    /\ desktops \in HintedLists
    /\ current \in DesktopIds(desktops)
    /\ now = StartTime
    /\ pending = FALSE
    /\ desktopNumberMap = buildDesktopNumberMap(desktops)
    /\ desktopHistory = <<current>>
    /\ historyIndex = 0
    /\ lastTriggerTime = 0
    /\ navigationBuffer = None
    /\ shortcuts = registerShortcuts(Len(desktops))
    /\ thrown = FALSE
    /\ walk = NoWalk
    /\ tog = NoTog
    /\ pss = NoPss
    /\ ptp = NoPtp
    /\ rt = NoRt
    /\ ut = NoUt
    /\ pre = NoPre

NextMap ==
    \/ \E ds \in HintedChanges(desktops) : DesktopsChangedHinted(ds) /\ UNCHANGED <<shortcuts, thrown, ut, pre, walk, tog, pss, ptp, rt>>
    \/ \E n \in SlotInputs : handleDirectDesktopNavigation(n) /\ UNCHANGED <<shortcuts, thrown, ut, pre, walk, tog, pss, ptp, rt>>

SpecMap == InitMap /\ [][NextMap]_vars

\* The host changes its list and the desktopsChanged signal reaches the script
\* later: until then the slot map and History are those of the old list.
\* Removing the active desktop makes the host activate another one, which it
\* reports by currentDesktopChanged at once.  The clock stands still in this
\* specification: the first 'previous desktop' press is fresh, the later ones
\* continue it.
HostListChanged(ds) ==
    /\ ds \in HostLists
    /\ Len(ds) \in {Len(desktops) - 1, Len(desktops) + 1}
    /\ desktops' = ds
    /\ IF current \in DesktopIds(ds)
       THEN UNCHANGED <<current, pending, desktopHistory>>
       ELSE /\ current' \in DesktopIds(ds)
            /\ pending' = FALSE
            /\ desktopHistory' = addToHistory(desktopHistory, current')
    /\ UNCHANGED <<now, desktopNumberMap, historyIndex, lastTriggerTime, navigationBuffer>>

\* the desktopsChanged handler, run on the list the host has by then
DesktopsChangedDelivered ==
    /\ desktopNumberMap' = buildDesktopNumberMap(desktops)
    /\ desktopHistory' = cleanupHistory(desktopHistory, desktops)
    /\ UNCHANGED <<host, historyIndex, lastTriggerTime, navigationBuffer>>

NextStale ==
    \/ CurrentDesktopChangedConfirm /\ UNCHANGED <<shortcuts, thrown, ut, pre, walk, tog, pss, ptp, rt>>
    \/ \E d \in Ids : CurrentDesktopChangedSwitch(d) /\ UNCHANGED <<shortcuts, thrown, ut, pre, walk, tog, pss, ptp, rt>>
    \/ \E ds \in HostLists : HostListChanged(ds) /\ UNCHANGED <<shortcuts, thrown, ut, pre, walk, tog, pss, ptp, rt>>
    \/ DesktopsChangedDelivered /\ UNCHANGED <<shortcuts, thrown, ut, pre, walk, tog, pss, ptp, rt>>
    \/ handleHistoryNavigation /\ UNCHANGED <<shortcuts, thrown, ut, pre, walk, tog, pss, ptp, rt>>
    \/ \E n \in SlotInputs : handleDirectDesktopNavigation(n) /\ UNCHANGED <<shortcuts, thrown, ut, pre, walk, tog, pss, ptp, rt>>

SpecStale == Init /\ [][NextStale]_vars

\* The script takes identifiers as they come.  The currentDesktopChanged
\* handler may be handed a desktop that is not in workspace.desktops, and
\* navigateToDesktop, a method of the exported object, may be called with any
\* identifier.
CurrentDesktopChangedUnknown(d) ==
    /\ d \in Ids \ DesktopIds(desktops)
    /\ desktopHistory' = addToHistory(desktopHistory, d)
    /\ UNCHANGED <<host, desktopNumberMap, historyIndex, lastTriggerTime, navigationBuffer>>

navigateToDesktopCall(desktopId) ==
    LET moved == navigateToDesktop(desktops, desktopId)
    IN  /\ desktopId \in Ids
        /\ current' = IF moved # None THEN moved ELSE current
        /\ pending' = IF moved # None THEN TRUE ELSE pending
        /\ UNCHANGED <<desktops, now, engine>>

NextOpaque ==
    \/ Tick /\ UNCHANGED <<shortcuts, thrown, ut, pre, walk, tog, pss, ptp, rt>>
    \/ CurrentDesktopChangedConfirm /\ UNCHANGED <<shortcuts, thrown, ut, pre, walk, tog, pss, ptp, rt>>
    \/ \E d \in Ids : CurrentDesktopChangedSwitch(d) /\ UNCHANGED <<shortcuts, thrown, ut, pre, walk, tog, pss, ptp, rt>>
    \/ \E d \in Ids : CurrentDesktopChangedUnknown(d) /\ UNCHANGED <<shortcuts, thrown, ut, pre, walk, tog, pss, ptp, rt>>
    \/ \E ds \in HostLists : DesktopsChanged(ds) /\ UNCHANGED <<shortcuts, thrown, ut, pre, walk, tog, pss, ptp, rt>>
    \/ handleHistoryNavigation /\ UNCHANGED <<shortcuts, thrown, ut, pre, walk, tog, pss, ptp, rt>>
    \/ \E n \in SlotInputs : handleDirectDesktopNavigation(n) /\ UNCHANGED <<shortcuts, thrown, ut, pre, walk, tog, pss, ptp, rt>>
    \/ \E id \in Ids : navigateToDesktopCall(id) /\ UNCHANGED <<shortcuts, thrown, ut, pre, walk, tog, pss, ptp, rt>>

SpecOpaque == Init /\ [][NextOpaque]_vars

\* Registration at startup, for any number of desktops up to MaxStartup, then
\* presses of the registered 'Go to Desktop' shortcuts.
StartupLists == {DesktopList(m) : m \in 1..MaxStartup}

RegisteredSlots == {shortcuts[i].slot : i \in DOMAIN shortcuts} \ {0}

InitRegister ==
    /\ desktops \in StartupLists
    /\ current \in DesktopIds(desktops)
    /\ now = StartTime
    /\ pending = FALSE
    /\ desktopNumberMap = buildDesktopNumberMap(desktops)
    /\ desktopHistory = <<current>>
    /\ historyIndex = 0
    /\ lastTriggerTime = 0
    /\ navigationBuffer = None
    /\ shortcuts = registerShortcuts(Len(desktops))
    /\ thrown = FALSE
    /\ walk = NoWalk
    /\ tog = NoTog
    /\ pss = NoPss
    /\ ptp = NoPtp
    /\ rt = NoRt
    /\ ut = NoUt
    /\ pre = NoPre

NextRegister ==
    \E n \in RegisteredSlots : handleDirectDesktopNavigation(n) /\ UNCHANGED <<shortcuts, thrown, ut, pre, walk, tog, pss, ptp, rt>>

SpecRegister == InitRegister /\ [][NextRegister]_vars

\* The host may report no desktops at all, or no current desktop.  The
\* constructor reads workspace.currentDesktop.id before anything else is set
\* up, and handleHistoryNavigation reads it first thing: with no current
\* desktop the read throws a TypeError.  A throwing constructor leaves no
\* script object, no connected signal and no registered shortcut.
InitDegenerate ==
    /\ desktops \in {<<>>} \cup HostLists
    /\ current \in DesktopIds(desktops) \cup {None}
    /\ now = StartTime
    /\ pending = FALSE
    /\ thrown = (current = None)
    /\ desktopNumberMap = IF thrown THEN <<>> ELSE buildDesktopNumberMap(desktops)
    /\ desktopHistory = IF thrown THEN <<>> ELSE <<current>>
    /\ historyIndex = 0
    /\ lastTriggerTime = 0
    /\ navigationBuffer = None
    /\ shortcuts = IF thrown THEN <<>> ELSE registerShortcuts(Len(desktops))
    /\ walk = NoWalk
    /\ tog = NoTog
    /\ pss = NoPss
    /\ ptp = NoPtp
    /\ rt = NoRt
    /\ ut = NoUt
    /\ pre = NoPre

\* The host removes its only desktop and emits desktopsChanged: the handler
\* rebuilds an empty map and filters every entry out of History.
DesktopsChangedEmpty ==
    /\ Len(desktops) = 1
    /\ desktops' = <<>>
    /\ current' = None
    /\ pending' = FALSE
    /\ desktopNumberMap' = buildDesktopNumberMap(<<>>)
    /\ desktopHistory' = cleanupHistory(desktopHistory, <<>>)
    /\ UNCHANGED <<now, historyIndex, lastTriggerTime, navigationBuffer>>

\* handleHistoryNavigation with no current desktop: the first statement throws
handleHistoryNavigationThrows ==
    /\ current = None
    /\ thrown' = TRUE
    /\ UNCHANGED <<host, engine>>

NextDegenerate ==
    \/ ~thrown /\ Tick /\ UNCHANGED <<shortcuts, thrown, ut, pre, walk, tog, pss, ptp, rt>>
    \/ ~thrown /\ CurrentDesktopChangedConfirm /\ UNCHANGED <<shortcuts, thrown, ut, pre, walk, tog, pss, ptp, rt>>
    \/ ~thrown /\ \E d \in Ids : CurrentDesktopChangedSwitch(d) /\ UNCHANGED <<shortcuts, thrown, ut, pre, walk, tog, pss, ptp, rt>>
    \/ ~thrown /\ \E ds \in HostLists : DesktopsChanged(ds) /\ UNCHANGED <<shortcuts, thrown, ut, pre, walk, tog, pss, ptp, rt>>
    \/ ~thrown /\ DesktopsChangedEmpty /\ UNCHANGED <<shortcuts, thrown, ut, pre, walk, tog, pss, ptp, rt>>
    \/ ~thrown /\ current # None /\ handleHistoryNavigation /\ UNCHANGED <<shortcuts, thrown, ut, pre, walk, tog, pss, ptp, rt>>
    \/ ~thrown /\ handleHistoryNavigationThrows /\ UNCHANGED <<shortcuts, ut, pre, walk, tog, pss, ptp, rt>>
    \/ ~thrown /\ \E n \in SlotInputs : handleDirectDesktopNavigation(n) /\ UNCHANGED <<shortcuts, thrown, ut, pre, walk, tog, pss, ptp, rt>>

SpecDegenerate == InitDegenerate /\ [][NextDegenerate]_vars

----------------------------------------------------------------------------
(* Properties *)

NoDuplicates(h) == \A i, j \in 1..Len(h) : i # j => h[i] # h[j]

\* the entry the k-th press of a walk over w.h is expected to land on
WalkTarget(w) == w.h[Max(1, Len(w.h) - w.k)]

\* C1: walk-back ordering.  In a walk that starts with a fresh press while the
\* active desktop is the last entry of History and no earlier walk is left
\* open on another desktop, and whose presses are not interleaved with any
\* other event, the k-th press leaves the active desktop on
\* History[max(0, n-1-k)] (0-based), clamped at the oldest entry.
C1_WalkBackOrdering ==
    (walk # NoWalk /\ walk.c = 0) => current = WalkTarget(walk)

C1_Witness ==
    /\ walk # NoWalk /\ walk.c = 0
    /\ Len(walk.h) = 3 /\ walk.k = 3
    /\ historyIndex = 3
    /\ current = walk.h[1]

\* C2: walk-back with every switch confirmed by the host before the next
\* press: the k-th press lands on History[n-1-k] of the History the walk
\* started from, never on the desktop the walk started on nor on a desktop
\* visited earlier in the same walk.
C2_ConfirmedWalk ==
    (walk # NoWalk /\ (walk.c > 0 \/ walk.k = 1)) =>
        /\ current = WalkTarget(walk)
        /\ walk.k <= Len(walk.h) - 1 =>
              \A j \in (Len(walk.h) - walk.k + 1)..Len(walk.h) : walk.h[j] # current

C2_Witness ==
    /\ walk # NoWalk /\ walk.c = 2 /\ walk.k = 2
    /\ Len(walk.h) = 3
    /\ current = walk.h[1]
    /\ ~pending

\* C3: while a walk previews candidate C, a desktop-changed event reporting C
\* leaves History exactly as it was.
C3_SuppressionCorrectness ==
    [][(CurrentDesktopChangedConfirm /\ navigationBuffer # None
            /\ navigationBuffer = current)
          => desktopHistory' = desktopHistory]_vars

\* C4: toggle alternation.  Starting on A with History ending in [..., Z, A],
\* with every switch confirmed by the host and no other event in between, the
\* n-th press of the toggle shortcut of Z leaves the active desktop on Z when
\* n is odd and on A when n is even.
C4_ToggleAlternation ==
    tog # NoTog => current = IF tog.odd THEN tog.z ELSE tog.a

\* after an odd number (at least three) of presses: Z is active, its switch
\* not yet confirmed, and History ends in [..., Z, A] again
C4_Witness ==
    /\ tog # NoTog /\ tog.odd /\ pending
    /\ current = tog.z
    /\ Len(desktopHistory) = 3
    /\ desktopHistory[1] \notin {tog.a, tog.z}
    /\ desktopHistory[2] = tog.z /\ desktopHistory[3] = tog.a

\* C5: when the host reports a desktop other than the candidate of the open
\* walk, the walk is finalized (the candidate is in History), the reported
\* desktop is the last entry of History and no walk is left open.
C5_FinalizeOnDivergence ==
    [][\A d \in Ids :
          (CurrentDesktopChangedSwitch(d) /\ navigationBuffer # None
              /\ d # navigationBuffer)
          => /\ navigationBuffer' = None
             /\ Includes(desktopHistory', navigationBuffer)
             /\ LastEntry(desktopHistory') = d]_vars

\* C6: previous-press from X to P (confirmed), a switch by other means to a
\* third desktop S (reported), then the next previous-press lands on P.
C6_PrevSwitchPrev ==
    [][(pss.phase = "switched" /\ handleHistoryNavigation) => current' = pss.p]_vars

\* C7: History never contains an identifier twice.
C7_NoDuplicates == NoDuplicates(desktopHistory)

C7_Witness ==
    /\ walk # NoWalk /\ walk.c >= 1
    /\ ~pending
    /\ Len(desktopHistory) = 3
    /\ desktopHistory # walk.h

\* C8: History is never empty.
C8_NonEmpty == Len(desktopHistory) >= 1

\* C9: after a desktop-set change History is exactly the active desktop, the
\* walk position is 0 and no candidate is kept.
C9_ResetOnDesktopsChanged ==
    [][(\E ds \in HostLists : DesktopsChanged(ds)) =>
          /\ desktopHistory' = <<current'>>
          /\ historyIndex' = 0
          /\ navigationBuffer' = None]_vars

\* C10: a toggle press made on the desktop its slot maps to switches to the
\* most recent entry of History that is not the active desktop and still
\* exists, and leaves the active desktop alone when there is none.
C10_ToggleBackTarget ==
    [][\A n \in SlotInputs :
          (/\ n \in DOMAIN desktopNumberMap
           /\ desktopNumberMap[n] = current
           /\ handleDirectDesktopNavigation(n))
          => LET others == {i \in 1..Len(desktopHistory) :
                               /\ desktopHistory[i] # current
                               /\ desktopHistory[i] \in DesktopIds(desktops)}
             IN  /\ others = {} => current' = current
                 /\ others # {} =>
                       \E i \in others : /\ \A j \in others : j <= i
                                         /\ current' = desktopHistory[i]]_vars

\* a confirmed toggle run whose second press was the toggle-back, with an
\* older entry in History that the press had to pass over
C10_Witness ==
    /\ tog # NoTog /\ ~tog.odd /\ pending
    /\ current = tog.a
    /\ Len(desktopHistory) = 3
    /\ desktopHistory[1] \notin {tog.a, tog.z}

\* C11: a toggle press never continues a walk.  After a previous-press opened
\* a walk, a toggle press that jumped to another desktop and the host's report
\* of that jump, the next previous-press lands on the desktop that was active
\* immediately before the toggle press, however soon it follows.
C11_ToggleNeverContinuesWalk ==
    [][(ptp.phase = "jumpedConfirmed" /\ handleHistoryNavigation)
          => current' = ptp.b]_vars

\* C12: a toggle press made on the desktop of its slot, which jumps back to
\* the previous desktop, resets the last-trigger timestamp to 0, and the next
\* previous-press (after the host's report) lands on the desktop the toggle
\* press left.
C12_ToggleBackResetsTimer ==
    [][/\ \A n \in SlotInputs :
             (/\ n \in DOMAIN desktopNumberMap
              /\ desktopNumberMap[n] = current
              /\ handleDirectDesktopNavigation(n)
              /\ current' # current)
             => lastTriggerTime' = 0
       /\ (ptp.phase = "backConfirmed" /\ handleHistoryNavigation)
             => current' = ptp.b]_vars

\* C13: two slow presses round-trip.  From a quiescent state with at least
\* two entries in History and X active, a fresh previous-press lands on the
\* entry P before X, and a second press made continuationDelay or more later,
\* with no other desktop visited in between, lands back on X, whether or not
\* the host reported the first switch.
C13_SlowRoundTrip ==
    /\ rt.phase = "first" => current = rt.p
    /\ rt.phase = "back" => current = rt.x

\* the second press has acted after a first switch the host never reported,
\* in a History of three entries
C13_Witness ==
    /\ rt.phase = "back" /\ ~rt.c
    /\ current = rt.x
    /\ Len(desktopHistory) = 3
    /\ LastEntry(desktopHistory) = rt.p

\* C14: dedup-and-append.  When no walk is in progress, a desktop-changed
\* event for id leaves History with id last and every other identifier as
\* before, in the same order; the length grows by one exactly when id was
\* absent.
C14_DedupAndAppend ==
    [][(/\ navigationBuffer = None
        /\ \/ CurrentDesktopChangedConfirm
           \/ \E d \in Ids : CurrentDesktopChangedSwitch(d))
          => LET id == current'
                 others(h) == SelectSeq(h, LAMBDA e : e # id)
             IN  /\ LastEntry(desktopHistory') = id
                 /\ others(desktopHistory') = others(desktopHistory)
                 /\ Len(desktopHistory') = IF Includes(desktopHistory, id)
                                           THEN Len(desktopHistory)
                                           ELSE Len(desktopHistory) + 1]_vars

\* History built by events alone (no previous-press was ever made), the last
\* event reporting a desktop that was already in a History of three entries
C14_Witness ==
    /\ lastTriggerTime = 0 /\ navigationBuffer = None /\ ~pending
    /\ Len(desktopHistory) = NumDesktops
    /\ LastEntry(desktopHistory) = current
    /\ Len(desktops) = NumDesktops

\* the slot buildDesktopNumberMap computes for the desktop at position i
SlotAt(ds, i) == IF ds[i].x11DesktopNumber # 0 THEN ds[i].x11DesktopNumber ELSE i

NoDuplicateHints(ds) ==
    \A i, j \in 1..Len(ds) :
        (i # j /\ ds[i].x11DesktopNumber # 0) => ds[i].x11DesktopNumber # ds[j].x11DesktopNumber

ReachableByOneSlot(m, id) ==
    \E s \in DOMAIN m : m[s] = id /\ \A t \in DOMAIN m : m[t] = id => t = s

\* C15: slot remap correctness.  For a list without duplicate host numbers,
\* the rebuilt map gives every desktop without a number the slot of its
\* position, and every desktop of the list is reachable through exactly one
\* slot.
C15_SlotRemap ==
    NoDuplicateHints(desktops) =>
        /\ \A i \in 1..Len(desktops) :
              desktops[i].x11DesktopNumber = 0 =>
                  i \in DOMAIN desktopNumberMap /\ desktopNumberMap[i] = desktops[i].id
        /\ \A i \in 1..Len(desktops) : ReachableByOneSlot(desktopNumberMap, desktops[i].id)

C17_IndexConsistency ==
    /\ \A i \in 1..Len(desktops) : ReachableByOneSlot(desktopNumberMap, desktops[i].id)
    /\ \A s \in DOMAIN desktopNumberMap : desktopNumberMap[s] \in DesktopIds(desktops)

\* C18: a desktop-set change rebuilds the map from the new list alone: its
\* slots are exactly the slots the new list assigns, and every mapped
\* identifier is a desktop of the new list.
C18_RebuildReplaces ==
    [][(desktops' # desktops /\ DesktopsChangedHinted(desktops'))
          => /\ DOMAIN desktopNumberMap' = {SlotAt(desktops', i) : i \in 1..Len(desktops')}
             /\ \A s \in DOMAIN desktopNumberMap' :
                   desktopNumberMap'[s] \in DesktopIds(desktops')]_vars

\* the last of three desktops, the only entry of History, was removed after an
\* unreported jump away from it: slot 3, mapped before, is gone
C18_Witness ==
    /\ Len(desktops) = 2
    /\ DOMAIN desktopNumberMap = {1, 2}
    /\ desktopHistory = <<>>
    /\ pending

\* C19: a toggle press for a slot without a mapping switches nothing and
\* leaves the active desktop, History and the navigation state as they were.
C19_UnknownSlotNoOp ==
    [][\A n \in SlotInputs :
          (n \notin DOMAIN desktopNumberMap /\ handleDirectDesktopNavigation(n))
          => UNCHANGED <<current, pending, desktopNumberMap, desktopHistory,
                         historyIndex, lastTriggerTime, navigationBuffer>>]_vars

\* an open walk (a previous-press whose switch is not yet reported) while a
\* slot within the shortcut range has no desktop
C19_Witness ==
    /\ navigationBuffer # None /\ pending /\ historyIndex >= 1
    /\ Len(desktops) < NumDesktops
    /\ NumDesktops \notin DOMAIN desktopNumberMap

\* C20: a toggle press for a slot whose desktop is not the active one commands
\* a switch to exactly that desktop, whatever History and the walk are.
C20_DirectJump ==
    [][\A n \in SlotInputs :
          (/\ n \in DOMAIN desktopNumberMap
           /\ desktopNumberMap[n] # current
           /\ handleDirectDesktopNavigation(n))
          => current' = desktopNumberMap[n] /\ pending']_vars

\* a jump made during an open walk to a desktop that History does not hold
C20_Witness ==
    /\ pending /\ navigationBuffer # None
    /\ current # navigationBuffer
    /\ ~Includes(desktopHistory, current)
    /\ historyIndex >= 1

\* C21: single-entry walk-back.  A 'previous desktop' press made while History
\* holds only the startup desktop, which is still the active one, leaves the
\* active desktop unchanged and leaves History equal to that single entry.
C21_SingleEntryWalkBack ==
    [][(desktopHistory = <<current>> /\ navigationBuffer = None
        /\ handleHistoryNavigation)
       => (current' = current /\ desktopHistory' = desktopHistory)]_vars

\* the press has been made: the timer is set, History is the single entry of
\* desktop 2, and desktop 1 exists but was never visited
C21_Witness ==
    /\ desktopHistory = <<2>>
    /\ current = 2
    /\ Len(desktops) >= 2
    /\ lastTriggerTime = now
    /\ historyIndex = 1
    /\ navigationBuffer = None
    /\ ~pending

\* C22: a degenerate desktop set never crashes.  When the host reports zero
\* desktops or no current desktop, at startup or later, initialization,
\* 'previous desktop' presses, toggle presses and desktop-set-changed events
\* complete without raising an exception and issue no switch command.
C22_DegenerateNeverRaises ==
    /\ ~thrown
    /\ (current = None => ~pending)

\* C23: toggle-back with nothing to go back to.  A toggle press made on the
\* desktop of its slot while History holds no existing desktop other than the
\* active one (an empty History included) issues no switch command and leaves
\* the active desktop unchanged.
C23_ToggleBackNothing ==
    [][\A n \in SlotInputs :
         (/\ n \in DOMAIN desktopNumberMap
          /\ desktopNumberMap[n] = current
          /\ \A i \in 1..Len(desktopHistory) :
                desktopHistory[i] = current
                \/ ~desktopExists(desktops, desktopHistory[i])
          /\ handleDirectDesktopNavigation(n))
         => (current' = current /\ pending' = pending)]_vars

\* History is empty after the only desktop it held was removed while an
\* unreported jump was under way; the active desktop has a slot and other
\* desktops exist
C23_Witness ==
    /\ desktopHistory = <<>>
    /\ Len(desktops) >= 2
    /\ \E n \in DOMAIN desktopNumberMap : desktopNumberMap[n] = current
    /\ current # desktops[1].id

\* C24: stale slot mapping.  A toggle press for a slot whose mapped identifier
\* no longer belongs to any desktop of the host's list issues no switch command
\* and leaves the active desktop and History unchanged.
C24_StaleSlot ==
    [][\A n \in SlotInputs :
         (/\ n \in DOMAIN desktopNumberMap
          /\ ~desktopExists(desktops, desktopNumberMap[n])
          /\ handleDirectDesktopNavigation(n))
         => (current' = current /\ pending' = pending
             /\ desktopHistory' = desktopHistory)]_vars

\* the host has removed a desktop that History still holds and the slot map
\* still points at: the desktopsChanged handler has not run yet
C24_Witness ==
    \E n \in SlotInputs \cap DOMAIN desktopNumberMap :
        /\ ~desktopExists(desktops, desktopNumberMap[n])
        /\ Includes(desktopHistory, desktopNumberMap[n])
        /\ current # desktopNumberMap[n]

C28_ContinuationThreshold ==
    [][handleHistoryNavigation
       => (/\ lastTriggerTime' = now
           /\ historyIndex' = IF now - lastTriggerTime < 500
                               THEN historyIndex + 1 ELSE 1)]_vars

\* three presses, each TickMs after the one before: the third continues the
\* walk although the first one lies two ticks back
C28_Witness ==
    /\ now = StartTime + 2 * TickMs
    /\ lastTriggerTime = now
    /\ historyIndex = 3

\* C29: continuation needs an open walk.  A 'previous desktop' press made
\* within continuationDelay of the previous press while no walk is in progress
\* (no walk candidate is pending) is handled as a fresh press: from a History
\* that ends with the active desktop it switches to the entry just before it.
C29_ContinuationNeedsOpenWalk ==
    [][(/\ navigationBuffer = None
        /\ now - lastTriggerTime < continuationDelay
        /\ Len(desktopHistory) >= 2
        /\ current = LastEntry(desktopHistory)
        /\ \A i \in 1..Len(desktopHistory) : desktopExists(desktops, desktopHistory[i])
        /\ handleHistoryNavigation)
       => current' = desktopHistory[Len(desktopHistory) - 1]]_vars

\* C30: intermediate walk steps are not recorded.  When a walk of k >= 1
\* presses that started on desktop D, the last entry of the pre-walk History,
\* has ended on another desktop X, whether no step or every step was confirmed
\* by the host, the fresh press that finalizes it finds History equal to the
\* pre-walk History with only X moved to the back, and lands on D.
C30_IntermediateStepsNotRecorded ==
    [][(/\ walk # NoWalk
        /\ now - lastTriggerTime >= continuationDelay
        /\ (walk.c = 0 \/ ~pending)
        /\ current # LastEntry(walk.h)
        /\ handleHistoryNavigation)
       => (/\ desktopHistory' =
                Append(SelectSeq(walk.h, LAMBDA x : x # current), current)
           /\ current' = LastEntry(walk.h))]_vars

\* C31: a fresh press always leaves the current desktop.  In every state in
\* which History holds at least two existing desktops, a fresh 'previous
\* desktop' press commands a switch to a desktop other than the active one.
\* Stated for the states in which the host has reported every switch.
C31_FreshPressLeaves ==
    [][(/\ now - lastTriggerTime >= continuationDelay
        /\ ~pending
        /\ Cardinality({desktopHistory[i] : i \in 1..Len(desktopHistory)}
                       \cap DesktopIds(desktops)) >= 2
        /\ handleHistoryNavigation)
       => current' # current]_vars

\* C32: the most recent entry is the active desktop.  In every state in which
\* the host owes no desktop-changed event and no walk is in progress (no walk
\* candidate is pending), the last entry of History is the active desktop; and
\* when a walk step was confirmed, the user then switched by other means, the
\* host reported it, and a fresh 'previous desktop' press has finalized the
\* walk, the last entry of History is the desktop that was active at the press.
C32_LastEntryIsActive ==
    /\ []((~pending /\ navigationBuffer = None) => LastEntry(desktopHistory) = current)
    /\ [][(/\ pss.phase = "switched"
            /\ now - lastTriggerTime >= continuationDelay
            /\ ~pending
            /\ handleHistoryNavigation)
           => LastEntry(desktopHistory') = current]_vars

\* C33: walk lifecycle.  An open walk (a walk candidate is pending) is closed
\* by a desktop-changed event that reports another desktop than the candidate,
\* by a fresh 'previous desktop' press (which records the candidate in
\* History), and by a toggle press whose slot resolves to an existing desktop;
\* the clock, the confirmation of the candidate and a continuing press leave
\* it open.
C33_WalkLifecycle ==
    [][navigationBuffer # None =>
         /\ (\E d \in Ids : d # navigationBuffer /\ CurrentDesktopChangedSwitch(d))
              => navigationBuffer' = None
         /\ (current # navigationBuffer /\ CurrentDesktopChangedConfirm)
              => navigationBuffer' = None
         /\ (\E n \in SlotInputs :
                /\ n \in DOMAIN desktopNumberMap
                /\ desktopExists(desktops, desktopNumberMap[n])
                /\ handleDirectDesktopNavigation(n))
              => navigationBuffer' = None
         /\ (now - lastTriggerTime >= continuationDelay /\ handleHistoryNavigation)
              => Includes(desktopHistory', navigationBuffer)
         /\ (Tick \/ (current = navigationBuffer /\ CurrentDesktopChangedConfirm))
              => (navigationBuffer' = navigationBuffer)
         /\ (now - lastTriggerTime < continuationDelay /\ handleHistoryNavigation)
              => navigationBuffer' # None]_vars

\* C34: the walk position stays in range.  In every state in which a walk is
\* in progress, the position of the walk, History.length - 1 - historyIndex,
\* designates an entry of History: it is at least 0 and less than the length.
C34_WalkPositionInRange ==
    navigationBuffer # None =>
        LET candidateIndex == Len(desktopHistory) - 1 - historyIndex
        IN  0 <= candidateIndex /\ candidateIndex < Len(desktopHistory)

\* C35 as written: after a toggle press of slot n jumped to the slot's desktop
\* and before the host has reported it, a second press of the same shortcut
\* switches to the last entry of History.
C35_SecondPressTakesLastEntry ==
    [][(/\ ut.phase = "jumped"
        /\ handleDirectDesktopNavigation(ut.n))
       => current' = LastEntry(desktopHistory)]_vars

\* C35 (amended): the second press of the same toggle shortcut, made before
\* the host has reported the first jump to T, switches to the most recent
\* entry of History that is an existing desktop other than T, and switches
\* nowhere when History has no such entry (so it returns to the desktop the
\* first press departed from when that one is the last entry); History is
\* left as it was.
C35_SecondPressTakesMostRecentOther ==
    [][(/\ ut.phase = "jumped"
        /\ handleDirectDesktopNavigation(ut.n))
       => LET others == {i \in 1..Len(desktopHistory) :
                            /\ desktopHistory[i] # ut.t
                            /\ desktopHistory[i] \in DesktopIds(desktops)}
          IN  /\ others = {} => current' = current
              /\ others # {} =>
                    \E i \in others :
                        /\ \A j \in others : j <= i
                        /\ current' = desktopHistory[i]
              /\ (LastEntry(desktopHistory) # ut.t
                    /\ LastEntry(desktopHistory) \in DesktopIds(desktops))
                  => current' = LastEntry(desktopHistory)
              /\ desktopHistory' = desktopHistory]_vars

\* the second press went to an older entry because the last entry of History
\* is the toggled desktop itself
C35_Witness ==
    /\ ut.phase = "back"
    /\ pending
    /\ LastEntry(desktopHistory) = ut.t
    /\ current # ut.t

\* C36: every switch command of a 'previous desktop' press or of a toggle
\* press names a desktop that is in the host's desktop list at that moment,
\* also when the list has changed and the desktopsChanged handler has not run.
C36_CommandsTargetExistingDesktops ==
    [][((handleHistoryNavigation \/ \E n \in SlotInputs : handleDirectDesktopNavigation(n))
        /\ (current' # current \/ pending' # pending))
       => /\ current' \in DesktopIds(desktops)
          /\ desktops' = desktops]_vars

\* a press has switched while the slot map still names a removed desktop,
\* i.e. between the change of the list and the desktopsChanged handler
C36_Witness ==
    /\ pending
    /\ navigationBuffer = current
    /\ \E n \in DOMAIN desktopNumberMap : desktopNumberMap[n] \notin DesktopIds(desktops)
    /\ \A i \in 1..Len(desktopHistory) : desktopHistory[i] \in DesktopIds(desktops)

\* C37: when a 'previous desktop' press returns, every identifier in History
\* belongs to a desktop of the host's list, also when the target of an
\* earlier walk has been removed in between.
C37_HistoryExistsAfterPress ==
    [][handleHistoryNavigation
       => \A i \in 1..Len(desktopHistory') :
              desktopHistory'[i] \in DesktopIds(desktops)]_vars

\* C38: a 'previous desktop' or toggle press that switched leaves the same
\* History, walk state and active desktop when the host reports the switch
\* after the handler has returned as when it reports it inside the switch
\* command, before the handler has stored its walk candidate.
C38_ConfirmationTimingDoesNotMatter ==
    [][(pre.op \in {"prev", "toggle"} /\ CurrentDesktopChangedConfirm)
       => Outcome' = pre.sync]_vars

\* a walk press has been reported after the handler returned, and its target
\* has moved to the back of History
C38_Witness ==
    /\ pre.op = "reported"
    /\ ~pending
    /\ navigationBuffer = current
    /\ LastEntry(desktopHistory) = current
    /\ Len(desktopHistory) >= 2
    /\ Outcome = pre.sync

\* C39 as written: a fresh 'previous desktop' press made while the active
\* desktop is absent from History switches to the entry that was the most
\* recent one before the press and leaves the active desktop of press time
\* in History.
C39_RepairTargetsLastEntry ==
    [][(/\ now - lastTriggerTime >= continuationDelay
        /\ ~Includes(desktopHistory, current)
        /\ handleHistoryNavigation)
       => /\ current' = LastEntry(desktopHistory)
          /\ Includes(desktopHistory', current)]_vars

====
